---- MODULE Spec2Model ----
(***************************************************************************)
(* Generic-join query engine of egglog (src/src/gj.rs): compile_gj_query,  *)
(* compile_program, Context::new, Context::build_trie, Trie::insert,       *)
(* Context::eval and the seminaive driver EGraph::run_query, together with *)
(* the i64 primitives the queries use (src/src/sort/i64.rs).               *)
(***************************************************************************)
EXTENDS Integers, Sequences, FiniteSets, TLC

\* ------------------------------------------------------------------ bounds
\* Payloads of the i64 values stored in relation rows are 1..MaxVal.
MaxVal == 2
\* Largest timestamp a row carries.
MaxTs == 1
\* Largest number of rows in the e-graph.
MaxRows == 2
\* Largest id of the union-find.
MaxId == 1
\* Largest number of partially applied arguments of a function value.
MaxArgs == 3
\* Largest number of function values the constructor primitive stores.
MaxFns == 2

\* u32::MAX, the upper end of every timestamp range.  Timestamps are only
\* compared, never added, so the 32-bit domain is scaled to 0..MaxTs+1 with
\* u32::MAX as its top element; rows carry timestamps below it.
U32_MAX == MaxTs + 1

\* ------------------------------------------------------------------ values
\* Value { tag, bits }; store is "self as u64": a negative number is stored
\* as its two's complement
I64Store(a) == [tag |-> "i64", bits |-> IF a >= 0 THEN a ELSE a + 2^64]

\* load is "value.bits as i64": bits below 2^63 are the number itself.  Every
\* payload of the model is a small non-negative number, so no bits of the
\* upper half occur.
I64Load(value) == value.bits

UnitValue == [tag |-> "Unit", bits |-> 0]

\* Value::fake(), the placeholder the tuple is initialised with
Fake == [tag |-> "__bogus__", bits |-> 1234567890]

\* Option<T>: None is the empty sequence, Some(x) the one-element sequence
None == << >>

Some(x) == << x >>

\* ------------------------------------------------------------------ helpers
Range(s) == {s[i] : i \in DOMAIN s}

\* the least element of a set of indices, 0 for the empty set: what
\* Iterator::position returns for the indices that pass its test
MinOrZero(S) == IF S = {} THEN 0 ELSE CHOOSE i \in S : \A j \in S : i <= j

RECURSIVE SetToSeq(_)
\* the elements of a finite set in one fixed iteration order
SetToSeq(S) ==
    IF S = {} THEN << >>
    ELSE LET e == CHOOSE e2 \in S : TRUE IN << e >> \o SetToSeq(S \ {e})

RemoveAt(s, i) == SubSeq(s, 1, i - 1) \o SubSeq(s, i + 1, Len(s))

\* ------------------------------------------------------------------ queries
\* AtomTerm::Var(Symbol) | AtomTerm::Value(Value)
Var(v) == [kind |-> "Var", sym |-> v, val |-> Fake]

Lit(n) == [kind |-> "Value", sym |-> "", val |-> I64Store(n)]

IsVar(t) == t.kind = "Var"

\* Atom { head, args } and PrimitiveAtom { head, args }
Atom(head, args) == [head |-> head, args |-> args]

SymsOf(terms) == [k \in DOMAIN terms |-> terms[k].sym]

\* Atom::vars(): the variables of the arguments, in order, with repetitions
AtomVars(atom) == SymsOf(SelectSeq(atom.args, IsVar))

\* ------------------------------------------------------------------ tries
\* Trie(HashMap<Value, Trie>): a function from keys to child tries
EmptyTrie == << >>

TrieLen(trie) == Cardinality(DOMAIN trie)

TrieGet(trie, k) == IF k \in DOMAIN trie THEN Some(trie[k]) ELSE None

RECURSIVE TrieInsert(_, _, _)
TrieInsert(trie, shuffle, tuple) ==
    IF shuffle = << >> THEN trie
    ELSE LET k == tuple[Head(shuffle)]
         IN [key \in (DOMAIN trie) \cup {k} |->
                IF key = k
                THEN TrieInsert(IF k \in DOMAIN trie THEN trie[k] ELSE EmptyTrie,
                                Tail(shuffle), tuple)
                ELSE trie[key]]

\* ------------------------------------------------------------------ e-graph
\* The e-graph is a set of rows [sym, row, ts]: row is a canonical tuple of
\* relation sym and ts the timestamp at which it was added.
InRange(ts, range) == range.start <= ts /\ ts < range.end

\* EGraph::for_each_canonicalized(sym, range, visit): the rows visited
ForEachCanonicalized(egraph, sym, range) ==
    SetToSeq({e.row : e \in {e2 \in egraph : e2.sym = sym /\ InRange(e2.ts, range)}})

\* Function::get_size(range), the size estimate the compiler uses
GetSize(egraph, sym, range) ==
    Cardinality({e \in egraph : e.sym = sym /\ InRange(e.ts, range)})

\* -------------------------------------------------------- compile_gj_query
\* IndexMap<Symbol, VarInfo>: a sequence of entries in insertion order
Keys(vars) == {vars[k].sym : k \in DOMAIN vars}

GetIndexOf(vars, v) == CHOOSE k \in DOMAIN vars : vars[k].sym = v

\* VarInfo::default() and VarInfo2::default() (VarInfo has no size_guess)
DefaultInfo(v) == [sym |-> v, occurences |-> << >>, size_guess |-> 0]

\* vars.entry(v).or_default()
EntryOrDefault(vars, v) ==
    IF v \in Keys(vars) THEN vars ELSE Append(vars, DefaultInfo(v))

\* occurences.push(i) on the entry of v
PushInto(vars, v, i) == [vars EXCEPT ![GetIndexOf(vars, v)].occurences = Append(@, i)]

\* vars.entry(v).or_default().occurences.push(i)
PushOccurence(vars, v, i) == PushInto(EntryOrDefault(vars, v), v, i)

RECURSIVE PushAll(_, _, _)
\* the inner loop "for v in atom.vars()" for atom i
PushAll(vars, vs, i) ==
    IF vs = << >> THEN vars
    ELSE PushAll(PushOccurence(vars, Head(vs), i), Tail(vs), i)

RECURSIVE AtomOccurences(_, _, _)
\* the loop over the atoms, from atom i on
AtomOccurences(vars, atoms, i) ==
    IF i > Len(atoms) THEN vars
    ELSE AtomOccurences(PushAll(vars, AtomVars(atoms[i]), i), atoms, i + 1)

RECURSIVE EnsureAll(_, _)
EnsureAll(vars, vs) ==
    IF vs = << >> THEN vars ELSE EnsureAll(EntryOrDefault(vars, Head(vs)), Tail(vs))

RECURSIVE FilterVars(_, _)
\* the loop over the filters: every variable of a primitive gets an entry
FilterVars(vars, filters) ==
    IF filters = << >> THEN vars
    ELSE FilterVars(EnsureAll(vars, AtomVars(Head(filters))), Tail(filters))

\* CompiledQuery { query, vars }: vars is the tuple layout
compile_gj_query(query) ==
    [query |-> query,
     vars |-> FilterVars(AtomOccurences(<< >>, query.atoms, 1), query.filters)]

\* ---------------------------------------------------------- compile_program
SeqMin(s) == CHOOSE m \in Range(s) : \A n \in Range(s) : m <= n

\* relation_sizes: get_size of every atom's relation in the atom's range
RelationSizes(egraph, atoms, timestamp_ranges) ==
    [i \in DOMAIN atoms |-> GetSize(egraph, atoms[i].head, timestamp_ranges[i])]

\* info.size_guess = min over the occurrences of relation_sizes
WithSizeGuess(info, relation_sizes) ==
    [info EXCEPT !.size_guess =
        SeqMin([k \in DOMAIN info.occurences |-> relation_sizes[info.occurences[k]]])]

\* the loop "for (_v, info) in &mut vars"
SizedVars(vars, relation_sizes) ==
    [k \in DOMAIN vars |-> WithSizeGuess(vars[k], relation_sizes)]

\* the comparator of vars.sort_by: more occurences first, then smaller relations
VarLess(i1, i2) ==
    \/ Len(i1.occurences) > Len(i2.occurences)
    \/ /\ Len(i1.occurences) = Len(i2.occurences)
       /\ i1.size_guess < i2.size_guess

InsertAt(s, e, k) ==
    IF k = 0 THEN Append(s, e)
    ELSE SubSeq(s, 1, k - 1) \o << e >> \o SubSeq(s, k, Len(s))

\* insert e behind every element that does not come after it (stable)
InsertSorted(sorted, e) ==
    InsertAt(sorted, e, MinOrZero({i \in DOMAIN sorted : VarLess(e, sorted[i])}))

RECURSIVE SortVars(_, _)
\* IndexMap::sort_by, a stable sort
SortVars(sorted, rest) ==
    IF rest = << >> THEN sorted
    ELSE SortVars(InsertSorted(sorted, Head(rest)), Tail(rest))

Intersect(idx, trie_indices) ==
    [op |-> "Intersect", idx |-> idx, trie_indices |-> trie_indices,
     prim |-> "", args |-> << >>, check |-> FALSE]

\* a Call that always checks its output
CallM(prim, args, check) ==
    [op |-> "Call", idx |-> 0, trie_indices |-> << >>,
     prim |-> prim, args |-> args, check |-> TRUE]

Call(prim, args, check) ==
    [op |-> "Call", idx |-> 0, trie_indices |-> << >>,
     prim |-> prim, args |-> args, check |-> check]

\* a scheduler that takes the first remaining filter whatever its inputs are
SchedulableM(p, vars) == TRUE

\* the closure of extra.iter().position(..): all arguments but the last are
\* literals or variables of the map
Schedulable(p, vars) ==
    \A k \in 1..(Len(p.args) - 1) : IsVar(p.args[k]) => p.args[k].sym \in Keys(vars)

\* the Call pushed for filter p: check unless its output is a new variable
FilterCall(p, vars) ==
    LET last == p.args[Len(p.args)]
    IN Call(p.head, p.args, IF IsVar(last) THEN last.sym \in Keys(vars) ELSE TRUE)

\* vars.entry(*v) of the output of filter p: Vacant inserts the variable
WithOutput(p, vars) ==
    LET last == p.args[Len(p.args)]
    IN IF IsVar(last) THEN EntryOrDefault(vars, last.sym) ELSE vars

RECURSIVE ScheduleFilters(_, _, _)
RECURSIVE ScheduleNext(_, _, _, _)
\* "if let Some(i) = next { .. } else { panic!("cycle") }"
ScheduleNext(extra, vars, program, next) ==
    IF next = 0
    THEN [panic |-> TRUE, program |-> program, vars |-> vars]
    ELSE ScheduleFilters(RemoveAt(extra, next), WithOutput(extra[next], vars),
                         Append(program, FilterCall(extra[next], vars)))

\* the loop "while !extra.is_empty()"
ScheduleFilters(extra, vars, program) ==
    IF extra = << >> THEN [panic |-> FALSE, program |-> program, vars |-> vars]
    ELSE ScheduleNext(extra, vars, program,
                      MinOrZero({i \in DOMAIN extra : Schedulable(extra[i], vars)}))

\* one Intersect per variable, in the sorted order
Intersects(cq, vars) ==
    [k \in DOMAIN vars |-> Intersect(GetIndexOf(cq.vars, vars[k].sym), vars[k].occurences)]

\* (program, vars.into_keys().collect())
Compiled(res) ==
    [panic |-> res.panic, program |-> res.program, vars |-> SymsOf(res.vars)]

\* the program for the sorted variables, with the filters scheduled behind
CompileSorted(cq, vars) ==
    Compiled(ScheduleFilters(cq.query.filters, vars, Intersects(cq, vars)))

\* compile_program(query, timestamp_ranges) -> (program, vars), or a panic
compile_program(egraph, cq, timestamp_ranges) ==
    CompileSorted(cq,
        SortVars(<< >>,
            SizedVars(AtomOccurences(<< >>, cq.query.atoms, 1),
                      RelationSizes(egraph, cq.query.atoms, timestamp_ranges))))

\* -------------------------------------------------------------- primitives
\* add_primitives!: load the arguments, apply the closure, store the result
Apply(prim, values) ==
    IF prim = "+"
    THEN Some(I64Store(I64Load(values[1]) + I64Load(values[2])))
    ELSE IF I64Load(values[1]) < I64Load(values[2]) THEN Some(UnitValue) ELSE None

\* --------------------------------------------------------------- build_trie
ConstraintEq(i, j) == [kind |-> "Eq", i |-> i, j |-> j, t |-> Fake]

ConstraintConst(i, t) == [kind |-> "Const", i |-> i, j |-> 0, t |-> t]

\* the match of build_trie: does the row pass this constraint
ConstraintOk(constraint, tuple) ==
    IF constraint.kind = "Eq"
    THEN tuple[constraint.i] = tuple[constraint.j]
    ELSE tuple[constraint.i] = constraint.t

RECURSIVE InsertPerConstraint(_, _, _, _)
\* "for constraint in &req.constraints { if ok { trie.insert(..) } }"
InsertPerConstraint(trie, constraints, projection, tuple) ==
    IF constraints = << >> THEN trie
    ELSE InsertPerConstraint(
             IF ConstraintOk(Head(constraints), tuple)
             THEN TrieInsert(trie, projection, tuple)
             ELSE trie,
             Tail(constraints), projection, tuple)

\* the closure handed to for_each_canonicalized, for one row
VisitRow(trie, req, tuple) ==
    IF req.constraints = << >>
    THEN TrieInsert(trie, req.projection, tuple)
    ELSE InsertPerConstraint(trie, req.constraints, req.projection, tuple)

RECURSIVE VisitRows(_, _, _)
VisitRows(trie, req, rows) ==
    IF rows = << >> THEN trie
    ELSE VisitRows(VisitRow(trie, req, Head(rows)), req, Tail(rows))

\* "if trie.0.is_empty() { None } else { Some(..) }"
NonEmpty(trie) == IF DOMAIN trie = {} THEN None ELSE Some(trie)

\* Context::build_trie(req) -> Option<&Trie>
build_trie(egraph, req) ==
    NonEmpty(VisitRows(EmptyTrie, req,
                       ForEachCanonicalized(egraph, req.sym, req.timestamp_range)))

\* -------------------------------------------------------------- Context::new
\* the constraint argument i of the atom contributes: Const for a literal,
\* Eq for a variable that occurs before, none otherwise
ArgConstraint(atom, i, j) ==
    IF ~IsVar(atom.args[i]) THEN << ConstraintConst(i, atom.args[i].val) >>
    ELSE IF j # 0 THEN << ConstraintEq(j, i) >>
    ELSE << >>

RECURSIVE AtomConstraints(_, _)
\* the loop over atom.args, from argument i on
AtomConstraints(atom, i) ==
    IF i > Len(atom.args) THEN << >>
    ELSE ArgConstraint(atom, i,
                       MinOrZero({j \in 1..(i - 1) : atom.args[j] = atom.args[i]}))
         \o AtomConstraints(atom, i + 1)

\* "if let Some(i) = .. position(..) { projection.push(i) }"
PushPosition(i) == IF i # 0 THEN << i >> ELSE << >>

RECURSIVE AtomProjectionM(_, _)
RECURSIVE AtomProjection(_, _)
\* a projection that lists the columns against the elimination order
AtomProjectionM(atom, vars) ==
    IF vars = << >> THEN << >>
    ELSE AtomProjectionM(atom, Tail(vars))
         \o PushPosition(MinOrZero({i \in DOMAIN atom.args : atom.args[i] = Var(Head(vars))}))

\* "for v in &vars": the column of the first occurrence of each variable
AtomProjection(atom, vars) ==
    IF vars = << >> THEN << >>
    ELSE PushPosition(MinOrZero({i \in DOMAIN atom.args : atom.args[i] = Var(Head(vars))}))
         \o AtomProjection(atom, Tail(vars))

TrieRequest(atom, vars, range) ==
    [sym |-> atom.head,
     projection |-> AtomProjection(atom, vars),
     constraints |-> AtomConstraints(atom, 1),
     timestamp_range |-> range]

RECURSIVE BuildTries(_, _, _, _, _)
RECURSIVE BuildRest(_, _, _, _, _, _)
\* the "?" of Context::new: leave at the first atom whose trie is None
BuildRest(egraph, atoms, vars, timestamp_ranges, atom_i, t) ==
    IF t = None THEN << t >>
    ELSE << t >> \o BuildTries(egraph, atoms, vars, timestamp_ranges, atom_i + 1)

\* the loop over the atoms of Context::new from atom_i on: the Options that
\* build_trie returned
BuildTries(egraph, atoms, vars, timestamp_ranges, atom_i) ==
    IF atom_i > Len(atoms) THEN << >>
    ELSE BuildRest(egraph, atoms, vars, timestamp_ranges, atom_i,
                   build_trie(egraph, TrieRequest(atoms[atom_i], vars,
                                                  timestamp_ranges[atom_i])))

\* Some((ctx, program)) when every trie was built, None otherwise
ContextBuilt(cq, compiled, built) ==
    [panic |-> FALSE,
     some |-> \A k \in DOMAIN built : built[k] # None,
     program |-> compiled.program,
     vars |-> compiled.vars,
     built |-> built,
     tuple |-> [k \in DOMAIN cq.vars |-> Fake],
     tries |-> IF \A k \in DOMAIN built : built[k] # None
               THEN [k \in DOMAIN built |-> built[k][1]]
               ELSE << >>]

\* Context::new after compile_program
ContextCompiled(egraph, cq, timestamp_ranges, compiled) ==
    IF compiled.panic
    THEN [panic |-> TRUE, some |-> FALSE, program |-> compiled.program,
          vars |-> compiled.vars, built |-> << >>,
          tuple |-> [k \in DOMAIN cq.vars |-> Fake], tries |-> << >>]
    ELSE ContextBuilt(cq, compiled,
                      BuildTries(egraph, cq.query.atoms, compiled.vars, timestamp_ranges, 1))

\* Context::new -> Option<(Context, program)>, or the panic of compile_program
ContextNew(egraph, cq, timestamp_ranges) ==
    ContextCompiled(egraph, cq, timestamp_ranges,
                    compile_program(egraph, cq, timestamp_ranges))

\* ------------------------------------------------------------ Context::eval
\* The mutable part of the Context is threaded through eval as a record
\* [tuple, tries, log]; log records what the execution did, each event with
\* the tuple and the cursors at that moment:
\*   Intersect (val: the keys iterated), Bind (val: the key), Call (val: the
\*   Option returned by the primitive), Prune (an early return of a Call),
\*   Emit (the callback; val: the slots written on the current path) and
\*   Return (the end of one eval call).
Log(st, op, pc, val) ==
    [st EXCEPT !.log = Append(@, [op |-> op, pc |-> pc, val |-> val,
                                  tuple |-> st.tuple, tries |-> st.tries])]

\* trie_indices.len() == 1: r.0.iter()
Keys1(rs) == SetToSeq(DOMAIN rs[1])

\* the keys of the smaller trie that the other trie contains
KeysIn(smaller, other) ==
    SelectSeq(SetToSeq(DOMAIN smaller), LAMBDA k : k \in DOMAIN other)

\* trie_indices.len() == 2: si = rs[0].len() > rs[1].len()
Keys2(rs) ==
    IF TrieLen(rs[1]) > TrieLen(rs[2]) THEN KeysIn(rs[2], rs[1]) ELSE KeysIn(rs[1], rs[2])

\* min_by_key: the first position whose trie has the fewest keys
MinByLen(rs) ==
    CHOOSE p \in DOMAIN rs :
        /\ \A q \in DOMAIN rs : TrieLen(rs[p]) <= TrieLen(rs[q])
        /\ \A q \in 1..(p - 1) : TrieLen(rs[q]) > TrieLen(rs[p])

\* a general path that binds every key of the smallest trie
RetainedM(trie_indices, rs, p_min) == SetToSeq(DOMAIN rs[p_min])

\* the keys of the smallest trie retained by every trie of another atom
Retained(trie_indices, rs, p_min) ==
    SelectSeq(SetToSeq(DOMAIN rs[p_min]),
              LAMBDA t : \A p \in DOMAIN rs :
                            trie_indices[p] # trie_indices[p_min] => t \in DOMAIN rs[p])

\* the general path
KeysN(trie_indices, rs) == Retained(trie_indices, rs, MinByLen(rs))

IntersectKeys(trie_indices, rs) ==
    IF Len(trie_indices) = 1 THEN Keys1(rs)
    ELSE IF Len(trie_indices) = 2 THEN Keys2(rs)
    ELSE KeysN(trie_indices, rs)

Descend1(tries, trie_indices, rs, val) ==
    [tries EXCEPT ![trie_indices[1]] = rs[1][val]]

\* the two-atom path advancing only the first listed cursor
Descend2M(tries, trie_indices, rs, val) ==
    [tries EXCEPT ![trie_indices[1]] = rs[1][val]]

Descend2(tries, trie_indices, rs, val) ==
    [[tries EXCEPT ![trie_indices[1]] = rs[1][val]]
        EXCEPT ![trie_indices[2]] = rs[2][val]]

\* "match r.0.get(&val) { Some(t) => *t, None => self.empty }"
GetOrEmpty(got) == IF got # None THEN got[1] ELSE EmptyTrie

RECURSIVE DescendN(_, _, _, _, _)
\* "for (r, &j) in rs.iter().zip(trie_indices)", from position p on
DescendN(tries, trie_indices, rs, val, p) ==
    IF p > Len(trie_indices) THEN tries
    ELSE DescendN([tries EXCEPT ![trie_indices[p]] = GetOrEmpty(TrieGet(rs[p], val))],
                  trie_indices, rs, val, p + 1)

Descend(tries, trie_indices, rs, val) ==
    IF Len(trie_indices) = 1 THEN Descend1(tries, trie_indices, rs, val)
    ELSE IF Len(trie_indices) = 2 THEN Descend2(tries, trie_indices, rs, val)
    ELSE DescendN(tries, trie_indices, rs, val, 1)

\* an Intersect that leaves the cursors where its last key put them
RestoreM(tries, trie_indices, rs, p) == tries

RECURSIVE Restore(_, _, _, _)
\* the assignments after the loop that put the saved cursors back
Restore(tries, trie_indices, rs, p) ==
    IF p > Len(trie_indices) THEN tries
    ELSE Restore([tries EXCEPT ![trie_indices[p]] = rs[p]], trie_indices, rs, p + 1)

\* the cursors of the listed atoms at the start of an Intersect
Cursors(tries, trie_indices) == [p \in DOMAIN trie_indices |-> tries[trie_indices[p]]]

\* the values a Call passes to the primitive
CallValues(cq, args, tuple) ==
    [k \in DOMAIN args |->
        IF IsVar(args[k]) THEN tuple[GetIndexOf(cq.vars, args[k].sym)]
        ELSE args[k].val]

\* the result of the primitive of a Call
CallResult(cq, instr, tuple) ==
    Apply(instr.prim, CallValues(cq, SubSeq(instr.args, 1, Len(instr.args) - 1), tuple))

\* a Call that overwrites a bound output variable instead of comparing it
CallPrunesM(cq, instr, res, tuple) ==
    \/ res = None
    \/ /\ ~IsVar(instr.args[Len(instr.args)])
       /\ instr.args[Len(instr.args)].val # res[1]

\* does the Call return early: no result, or a result that differs from the
\* literal output or from the bound output variable
CallPrunes(cq, instr, res, tuple) ==
    \/ res = None
    \/ /\ IsVar(instr.args[Len(instr.args)])
       /\ instr.check
       /\ tuple[GetIndexOf(cq.vars, instr.args[Len(instr.args)].sym)] # res[1]
    \/ /\ ~IsVar(instr.args[Len(instr.args)])
       /\ instr.args[Len(instr.args)].val # res[1]

\* the state after one eval call has returned
Returned(st, pc) == Log(st, "Return", pc, None)

\* "self.tuple[*idx] = *val" and the descent of the listed cursors
Bound(st, instr, rs, val, pc) ==
    Log([st EXCEPT !.tuple[instr.idx] = val,
                   !.tries = Descend(@, instr.trie_indices, rs, val)],
        "Bind", pc, val)

RECURSIVE Eval(_, _, _, _, _)
RECURSIVE EvalKeys(_, _, _, _, _, _, _)
RECURSIVE EvalIntersect(_, _, _, _, _, _)
RECURSIVE EvalCall(_, _, _, _, _, _)
\* the loop "for val in intersection" of the Intersect at program[pc]
EvalKeys(cq, program, pc, written, rs, keys, st) ==
    IF keys = << >> THEN st
    ELSE EvalKeys(cq, program, pc, written, rs, Tail(keys),
                  Eval(cq, program, pc + 1, written \cup {program[pc].idx},
                       Bound(st, program[pc], rs, Head(keys), pc)))

\* Instr::Intersect with the saved cursors rs
EvalIntersect(cq, program, pc, written, st, rs) ==
    [EvalKeys(cq, program, pc, written, rs,
              IntersectKeys(program[pc].trie_indices, rs),
              Log(st, "Intersect", pc, IntersectKeys(program[pc].trie_indices, rs)))
        EXCEPT !.tries = Restore(@, program[pc].trie_indices, rs, 1)]

\* Instr::Call with the result res of the primitive
EvalCall(cq, program, pc, written, st, res) ==
    IF CallPrunes(cq, program[pc], res, st.tuple)
    THEN Log(Log(st, "Call", pc, res), "Prune", pc, None)
    ELSE IF IsVar(program[pc].args[Len(program[pc].args)])
    THEN LET i == GetIndexOf(cq.vars, program[pc].args[Len(program[pc].args)].sym)
         IN Eval(cq, program, pc + 1, written \cup {i},
                 [Log(st, "Call", pc, res) EXCEPT !.tuple[i] = res[1]])
    ELSE Eval(cq, program, pc + 1, written, Log(st, "Call", pc, res))

\* Context::eval(&program[pc..], f); written is the set of tuple slots
\* assigned by the instructions before pc on the current path
Eval(cq, program, pc, written, st) ==
    Returned(
        IF pc > Len(program) THEN Log(st, "Emit", pc, written)
        ELSE IF program[pc].op = "Intersect"
        THEN EvalIntersect(cq, program, pc, written, st,
                           Cursors(st.tries, program[pc].trie_indices))
        ELSE EvalCall(cq, program, pc, written, st,
                      CallResult(cq, program[pc], st.tuple)),
        pc)

\* the tuples among the events of a log that were handed to the callback f
EmittedTuples(emits) == [k \in DOMAIN emits |-> emits[k].tuple]

Emitted(log) == EmittedTuples(SelectSeq(log, LAMBDA e : e.op = "Emit"))

\* ------------------------------------------------------------------ inputs
\* relation symbols and their arities
Arity == [R |-> 2, T |-> 3]

Syms == DOMAIN Arity

Vals == {I64Store(n) : n \in 1..MaxVal}

\* every row a relation can hold
Rows(sym) == [1..Arity[sym] -> Vals]

x == Var("x")

y == Var("y")

z == Var("z")

w == Var("w")

Query(atoms, filters) == [atoms |-> atoms, filters |-> filters]

\* queries without primitive filters over the binary relation
RJoinQueries ==
    { Query(<< Atom("R", << x, y >>), Atom("R", << y, z >>) >>, << >>),
      Query(<< Atom("R", << x, y >>), Atom("R", << x, y >>) >>, << >>),
      Query(<< Atom("R", << x, x >>) >>, << >>),
      Query(<< Atom("R", << Lit(1), y >>) >>, << >>),
      Query(<< Atom("R", << Lit(1), Lit(2) >>) >>, << >>),
      Query(<< Atom("R", << x, y >>), Atom("R", << Lit(1), Lit(2) >>) >>, << >>),
      Query(<< Atom("R", << x, y >>), Atom("R", << y, z >>), Atom("R", << z, x >>) >>, << >>),
      Query(<< Atom("R", << x, x >>), Atom("R", << x, y >>) >>, << >>),
      Query(<< >>, << >>) }

\* queries without primitive filters that use the ternary relation
TJoinQueries ==
    { Query(<< Atom("T", << x, Lit(1), Lit(2) >>) >>, << >>),
      Query(<< Atom("T", << x, x, Lit(1) >>) >>, << >>),
      Query(<< Atom("T", << x, y, x >>) >>, << >>),
      Query(<< Atom("T", << x, Lit(1), Lit(2) >>), Atom("T", << x, Lit(1), Lit(2) >>) >>, << >>),
      Query(<< Atom("T", << x, y, z >>), Atom("R", << x, y >>) >>, << >>),
      Query(<< Atom("R", << x, y >>), Atom("R", << x, z >>), Atom("T", << x, y, z >>) >>, << >>) }

JoinQueries == RJoinQueries \cup TJoinQueries

\* joins of two and of three different atoms
PermQueries ==
    { Query(<< Atom("R", << x, y >>), Atom("R", << y, z >>) >>, << >>),
      Query(<< Atom("R", << x, x >>), Atom("R", << x, y >>) >>, << >>),
      Query(<< Atom("R", << x, y >>), Atom("R", << y, z >>), Atom("R", << z, x >>) >>, << >>) }

\* queries that take each path of Intersect (one, two, three listed atoms,
\* one atom listed twice) and a Call that prunes
CursorQueries ==
    { Query(<< Atom("R", << x, y >>) >>, << Atom("<", << x, y, z >>) >>),
      Query(<< Atom("R", << x, y >>), Atom("R", << y, z >>) >>, << >>),
      Query(<< Atom("R", << x, x >>) >>, << >>),
      Query(<< Atom("R", << x, x >>), Atom("R", << x, y >>) >>,
            << Atom("<", << x, y, w >>) >>) }

\* queries with primitive filters; the last argument of a filter is its output
FilterQueries ==
    { Query(<< Atom("R", << x, y >>) >>, << Atom("+", << x, y, z >>) >>),
      Query(<< Atom("R", << x, y >>) >>, << Atom("<", << x, y, z >>) >>),
      Query(<< Atom("R", << x, y >>) >>, << Atom("+", << x, Lit(1), y >>) >>),
      Query(<< Atom("R", << x, y >>) >>, << Atom("+", << x, y, Lit(3) >>) >>),
      Query(<< Atom("R", << x, y >>), Atom("R", << y, z >>) >>,
            << Atom("<", << x, z, w >>) >>),
      Query(<< Atom("R", << x, y >>) >>,
            << Atom("+", << z, x, w >>), Atom("+", << x, y, z >>) >>),
      Query(<< >>, << Atom("+", << Lit(1), Lit(1), z >>) >>),
      Query(<< >>, << Atom("<", << Lit(2), Lit(1), z >>) >>) }

\* queries whose filters cannot be scheduled
CyclicQueries ==
    { Query(<< Atom("R", << x, y >>) >>,
            << Atom("+", << w, x, z >>), Atom("+", << z, x, w >>) >>),
      Query(<< Atom("R", << x, y >>), Atom("R", << y, x >>) >>,
            << Atom("+", << x, z, y >>) >>),
      Query(<< >>, << Atom("+", << z, Lit(1), z >>) >>) }

Queries == JoinQueries \cup FilterQueries \cup CyclicQueries \cup CursorQueries

\* the timestamps run_query is called with: 0 (every row is new), the
\* latest timestamp of a row (the rows of the last iteration are new) and
\* u32::MAX (no row is new)
Timestamps == {0, MaxTs, U32_MAX}

\* ------------------------------------------------------------ FunctionSort
\* self.name and self.inputs of the function sort: an eq-sort and i64
name == "Fn"

inputs == << "Math", "i64" >>

Ids == 0..MaxId

RECURSIVE Find(_, _)
\* UnionFind::find: the leader of the class of id
Find(uf, id) == IF uf[id] = id THEN id ELSE Find(uf, uf[id])

\* Sort::canonicalize of an input sort on "&mut v": an eq-sort replaces the
\* id by its leader and reports whether it differed, i64 leaves the value
\* alone and reports false
SortCanonicalize(s, v, uf) ==
    IF s = "Math"
    THEN [v |-> [v EXCEPT !.bits = Find(uf, v.bits)], changed |-> Find(uf, v.bits) # v.bits]
    ELSE [v |-> v, changed |-> FALSE]

\* ValueFunction = (Symbol, Vec<Value>)
ValueFunction(sym, args) == [name |-> sym, args |-> args]

\* functions.get_index(value.bits): the IndexSet counts from 0
get_value(fs, value) == fs[value.bits + 1]

\* functions.insert_full(self): the index of an equal element if there is
\* one, else the element is appended; the value carries the index as bits
store(fs, vf) ==
    IF \E i \in DOMAIN fs : fs[i] = vf
    THEN [functions |-> fs,
          value |-> [tag |-> name, bits |-> MinOrZero({i \in DOMAIN fs : fs[i] = vf}) - 1]]
    ELSE [functions |-> Append(fs, vf), value |-> [tag |-> name, bits |-> Len(fs)]]

load(fs, value) == get_value(fs, value)

RECURSIVE Fold(_, _, _, _)
\* the fold over inputs.zip(&self.inputs): zip ends with the shorter side.
\* "outputs.push(v)" copies v (Value is Copy) before "s.canonicalize(&mut v)"
\* rewrites the closure's own v, so the pushed value is the one loaded.
Fold(args, sorts, acc, uf) ==
    IF args = << >> \/ sorts = << >> THEN acc
    ELSE Fold(Tail(args), Tail(sorts),
              [outputs |-> Append(acc.outputs, Head(args)),
               changed |-> acc.changed \/ SortCanonicalize(Head(sorts), Head(args), uf).changed],
              uf)

\* "*value = (name, new_outputs).store(self).unwrap(); changed"
Stored(fs, sym, folded) ==
    [functions |-> store(fs, ValueFunction(sym, folded.outputs)).functions,
     value |-> store(fs, ValueFunction(sym, folded.outputs)).value,
     changed |-> folded.changed]

\* FunctionSort::canonicalize(&self, value, unionfind)
canonicalize(fs, value, uf) ==
    Stored(fs, get_value(fs, value).name,
           Fold(get_value(fs, value).args, inputs, [outputs |-> << >>, changed |-> FALSE], uf))

\* the values the constructor primitive is applied to: ids of the eq-sort
\* and an i64, sorted as self.inputs as far as self.inputs reaches
ArgVals == {[tag |-> "Math", bits |-> id] : id \in Ids} \cup {I64Store(1)}

FnArgs ==
    UNION {{a \in [1..n -> ArgVals] : \A i \in 1..n : i <= Len(inputs) => a[i].tag = inputs[i]} :
           n \in 0..MaxArgs}

FnNames == {"f", "g"}

\* ------------------------------------------------------------------- state
VARIABLES
    sort_functions,     \* self.functions of the function sort, in index order
    unionfind,          \* the parent of every id
    canon,              \* the last call of FunctionSort::canonicalize
    functions,          \* the rows of the e-graph
    pc,                 \* "idle", then "done" or "panic" after run_query
    cq,                 \* the CompiledQuery run_query was called with
    timestamp,          \* its timestamp argument
    out,                \* the tuples the callback f has received
    runs                \* one record per Context::new call of run_query

vars == << functions, pc, cq, timestamp, out, runs, sort_functions, unionfind, canon >>

Init ==
    /\ functions = {}
    /\ pc = "idle"
    /\ cq = compile_gj_query(Query(<< >>, << >>))
    /\ timestamp = 0
    /\ out = << >>
    /\ runs = << >>
    /\ sort_functions = << >>
    /\ unionfind = [id \in Ids |-> id]
    /\ canon = [called |-> FALSE]

\* A row enters relation sym at timestamp ts.
Insert(sym, row, ts) ==
    /\ pc = "idle"
    /\ Cardinality(functions) < MaxRows
    /\ \A e \in functions : ~(e.sym = sym /\ e.row = row)
    /\ functions' = functions \cup {[sym |-> sym, row |-> row, ts |-> ts]}
    /\ UNCHANGED << pc, cq, timestamp, out, runs, sort_functions, unionfind, canon >>

\* "if let Some((mut ctx, program)) = Context::new(..) { ctx.eval(&program, f) }"
Executed(query, ranges, new) ==
    [ranges |-> ranges, panic |-> new.panic, some |-> new.some,
     program |-> new.program, vars |-> new.vars, built |-> new.built,
     tries |-> new.tries,
     log |-> IF new.some
             THEN Eval(query, new.program, 1, {},
                       [tuple |-> new.tuple, tries |-> new.tries, log |-> << >>]).log
             ELSE << >>]

\* "do the gj": Context::new and, when it yields a context, ctx.eval
Execute(egraph, query, ranges) ==
    Executed(query, ranges, ContextNew(egraph, query, ranges))

NewRange(t) == [start |-> t, end |-> U32_MAX]

\* an atom that is never fixed to its old rows
OldRangeM(t) == [start |-> 0, end |-> U32_MAX]

OldRange(t) == [start |-> 0, end |-> t]

RECURSIVE RunSplits(_, _, _, _, _)
RECURSIVE SplitDone(_, _, _, _, _, _)
\* the rest of iteration i: a panic ends the run, else atom i is fixed to
\* its old rows and the loop goes on
SplitDone(egraph, query, t, ranges, i, run) ==
    IF run.panic THEN << run >>
    ELSE << run >> \o RunSplits(egraph, query, t, [ranges EXCEPT ![i] = OldRange(t)], i + 1)

\* the loop over the atoms from atom i on: one record per execution
RunSplits(egraph, query, t, ranges, i) ==
    IF i > Len(query.query.atoms) THEN << >>
    ELSE SplitDone(egraph, query, t, ranges, i,
                   Execute(egraph, query, [ranges EXCEPT ![i] = NewRange(t)]))

\* run_query(cq, timestamp, f): the executions it performs, in order
run_query(egraph, query, t) ==
    IF query.query.atoms # << >>
    THEN RunSplits(egraph, query, t,
                   [k \in DOMAIN query.query.atoms |-> [start |-> 0, end |-> U32_MAX]], 1)
    ELSE << Execute(egraph, query, << >>) >>

\* did run_query end in a panic
Panicked(rs) == rs[Len(rs)].panic

RECURSIVE Received(_)
\* the tuples the callback f received over the executions, in order
Received(rs) ==
    IF rs = << >> THEN << >> ELSE Emitted(Head(rs).log) \o Received(Tail(rs))

\* One call of run_query on the e-graph, from entry to return or panic.
RunQuery(q, t) ==
    /\ pc = "idle"
    /\ cq' = compile_gj_query(q)
    /\ timestamp' = t
    /\ runs' = run_query(functions, compile_gj_query(q), t)
    /\ out' = Received(runs')
    /\ pc' = IF Panicked(runs') THEN "panic" ELSE "done"
    /\ UNCHANGED << functions, sort_functions, unionfind, canon >>

Next ==
    \/ \E sym \in Syms : \E row \in Rows(sym) : \E ts \in 0..MaxTs : Insert(sym, row, ts)
    \/ \E q \in Queries : \E t \in Timestamps : RunQuery(q, t)

\* every relation and every query
Spec == Init /\ [][Next]_vars

NextJoin ==
    \/ \E row \in Rows("R") : \E ts \in 0..MaxTs : Insert("R", row, ts)
    \/ \E q \in RJoinQueries : \E t \in Timestamps : RunQuery(q, t)

\* the joins over the binary relation
SpecJoin == Init /\ [][NextJoin]_vars

NextFilter ==
    \/ \E row \in Rows("R") : \E ts \in 0..MaxTs : Insert("R", row, ts)
    \/ \E q \in FilterQueries \cup CyclicQueries : \E t \in Timestamps : RunQuery(q, t)

NextPerm ==
    \/ \E row \in Rows("R") : \E ts \in 0..MaxTs : Insert("R", row, ts)
    \/ \E q \in PermQueries : \E t \in Timestamps : RunQuery(q, t)

\* the joins whose atoms can be reordered
SpecPerm == Init /\ [][NextPerm]_vars

NextCursor ==
    \/ \E row \in Rows("R") : \E ts \in 0..MaxTs : Insert("R", row, ts)
    \/ \E q \in CursorQueries : \E t \in Timestamps : RunQuery(q, t)

\* the queries that exercise the cursors of eval
SpecCursor == Init /\ [][NextCursor]_vars

\* the queries with primitive filters
SpecFilter == Init /\ [][NextFilter]_vars

\* Ctor::apply: "(name, values[1..].to_vec()).store(&self.function)"
Ctor(sym, args) ==
    /\ Len(sort_functions) < MaxFns
    /\ sort_functions' = store(sort_functions, ValueFunction(sym, args)).functions
    /\ UNCHANGED << functions, pc, cq, timestamp, out, runs, unionfind, canon >>

\* Two classes of the union-find are merged; either leader may survive.
Union(a, b) ==
    /\ Find(unionfind, a) # Find(unionfind, b)
    /\ unionfind' = [unionfind EXCEPT ![Find(unionfind, b)] = Find(unionfind, a)]
    /\ UNCHANGED << functions, pc, cq, timestamp, out, runs, sort_functions, canon >>

\* the record of a call: what was loaded before it, the union-find it ran
\* under, what the value denotes after it and what it returned
Called(value, res) ==
    [called |-> TRUE,
     before |-> get_value(sort_functions, value),
     unionfind |-> unionfind,
     after |-> load(res.functions, res.value),
     changed |-> res.changed]

\* One call of FunctionSort::canonicalize on a value of the sort.
Canonicalize(value) ==
    /\ canon' = Called(value, canonicalize(sort_functions, value, unionfind))
    /\ sort_functions' = canonicalize(sort_functions, value, unionfind).functions
    /\ UNCHANGED << functions, pc, cq, timestamp, out, runs, unionfind >>

NextFn ==
    \/ \E sym \in FnNames : \E args \in FnArgs : Ctor(sym, args)
    \/ \E a, b \in Ids : Union(a, b)
    \/ \E i \in DOMAIN sort_functions : Canonicalize([tag |-> name, bits |-> i - 1])

\* function values under a changing union-find
SpecFn == Init /\ [][NextFn]_vars

\* ===================================================== reference semantics
\* What a query means, stated on the relations and not on the engine.
Names(query) == Keys(query.vars)

\* variables that occur in an atom / only in filters
AtomNames(query) ==
    {query.vars[k].sym : k \in {k2 \in DOMAIN query.vars : query.vars[k2].occurences # << >>}}

FilterNames(query) == Names(query) \ AtomNames(query)

\* every value a primitive of the queries can produce from the row values
PrimVals == {I64Store(n) : n \in 1..(3 * MaxVal)} \cup {UnitValue}

Merge(f, g) == [n \in (DOMAIN f) \cup (DOMAIN g) |-> IF n \in DOMAIN f THEN f[n] ELSE g[n]]

\* the candidate assignments of the variables of the query
Assignments(query) ==
    {Merge(f, g) : f \in [AtomNames(query) -> Vals], g \in [FilterNames(query) -> PrimVals]}

TermVal(term, sigma) == IF IsVar(term) THEN sigma[term.sym] ELSE term.val

\* sigma(A): the row an atom denotes under sigma
AtomRow(atom, sigma) == [k \in DOMAIN atom.args |-> TermVal(atom.args[k], sigma)]

RowsOf(egraph, sym) == {e.row : e \in {e2 \in egraph : e2.sym = sym}}

RowTs(egraph, sym, row) == (CHOOSE e \in egraph : e.sym = sym /\ e.row = row).ts

FilterHolds(p, sigma) ==
    LET n == Len(p.args)
        res == Apply(p.head, [k \in 1..(n - 1) |-> TermVal(p.args[k], sigma)])
    IN res # None /\ res[1] = TermVal(p.args[n], sigma)

\* (a) every atom denotes a row of its relation, (b) every filter holds
Satisfies(egraph, q, sigma) ==
    /\ \A k \in DOMAIN q.atoms : AtomRow(q.atoms[k], sigma) \in RowsOf(egraph, q.atoms[k].head)
    /\ \A k \in DOMAIN q.filters : FilterHolds(q.filters[k], sigma)

\* the full join
FullJoin(egraph, query) ==
    {sigma \in Assignments(query) : Satisfies(egraph, query.query, sigma)}

\* (c) at least one atom's row has a timestamp >= t
UsesNewRow(egraph, q, sigma, t) ==
    \E k \in DOMAIN q.atoms : RowTs(egraph, q.atoms[k].head, AtomRow(q.atoms[k], sigma)) >= t

NewJoin(egraph, query, t) ==
    {sigma \in FullJoin(egraph, query) : UsesNewRow(egraph, query.query, sigma, t)}

\* an emitted tuple as an assignment of the variables by name
AsAssignment(query, tuple) ==
    [n \in Names(query) |-> tuple[CHOOSE k \in DOMAIN query.vars : query.vars[k].sym = n]]

EmittedSet(query, tuples) == {AsAssignment(query, tuples[k]) : k \in DOMAIN tuples}

\* how often an assignment was passed to the callback
Count(query, tuples, sigma) ==
    Cardinality({k \in DOMAIN tuples : AsAssignment(query, tuples[k]) = sigma})

HasAtoms == cq.query.atoms # << >>

\* ================================================================== claims
\* C1: when run_query returns, the set of tuples passed to the callback is
\* exactly the set of assignments that (a) map every atom to a row of its
\* relation, (b) satisfy every filter and (c) use a row with timestamp >= t.
\* Stated for queries with atoms: a query without atoms has no row for (c)
\* to speak about.
C1_EmitsExactlyNewJoin ==
    (pc = "done" /\ HasAtoms) => EmittedSet(cq, out) = NewJoin(functions, cq, timestamp)

\* C2: across the splits of one run_query with N >= 1 atoms, a satisfying
\* assignment that uses a row with timestamp >= t is passed exactly once and
\* one that uses only older rows is never passed.
C2_ExactlyOnce ==
    (pc = "done" /\ HasAtoms) =>
        \A sigma \in FullJoin(functions, cq) :
            Count(cq, out, sigma) =
                IF UsesNewRow(functions, cq.query, sigma, timestamp) THEN 1 ELSE 0

\* C3: run_query with t = u32::MAX never invokes the callback, and with
\* t = 0 it emits the full join over all rows.  Stated for queries with
\* atoms (a query without atoms is executed once whatever t is).
C3_InfinityAndZero ==
    (pc = "done" /\ HasAtoms) =>
        /\ timestamp = U32_MAX => out = << >>
        /\ timestamp = 0 => EmittedSet(cq, out) = FullJoin(functions, cq)

\* a row passes the constraint set of an atom when it agrees with every
\* literal argument and has equal values wherever a variable is repeated
PassesAtom(atom, row) ==
    /\ \A i \in DOMAIN atom.args : ~IsVar(atom.args[i]) => row[i] = atom.args[i].val
    /\ \A i, j \in DOMAIN atom.args : atom.args[i] = atom.args[j] => row[i] = row[j]

HasConstraints(atom) ==
    \/ \E i \in DOMAIN atom.args : ~IsVar(atom.args[i])
    \/ \E i, j \in DOMAIN atom.args : i # j /\ atom.args[i] = atom.args[j]

RowsInRange(egraph, sym, range) ==
    {e.row : e \in {e2 \in egraph : e2.sym = sym /\ range.start <= e2.ts /\ e2.ts < range.end}}

\* the rows of atom k that pass its constraints within its range of a run
PassingRows(k, run) ==
    {row \in RowsInRange(functions, cq.query.atoms[k].head, run.ranges[k]) :
        PassesAtom(cq.query.atoms[k], row)}

RECURSIVE TriePaths(_)
\* the key sequences from the root of a trie to its leaves
TriePaths(trie) ==
    IF DOMAIN trie = {} THEN {<< >>}
    ELSE UNION {{<< k >> \o path : path \in TriePaths(trie[k])} : k \in DOMAIN trie}

Project(projection, row) == [k \in DOMAIN projection |-> row[projection[k]]]

\* C4: in a split where some atom has no row passing its constraints within
\* its timestamp range, Context::new yields no context, no instruction is
\* executed, the callback is not invoked, and the driver goes on.
C4_EmptyAtomSkipsSplit ==
    \A r \in DOMAIN runs :
        (/\ ~runs[r].panic
         /\ \E k \in DOMAIN cq.query.atoms : PassingRows(k, runs[r]) = {})
        => /\ ~runs[r].some
           /\ runs[r].log = << >>
           /\ pc # "panic"

\* C8: every path of the trie built for an atom with constraints is the
\* projection of a row that passes all constraints of the atom.
C8_OnlyPassingRowsInserted ==
    \A r \in DOMAIN runs : \A k \in DOMAIN runs[r].built :
        (HasConstraints(cq.query.atoms[k]) /\ runs[r].built[k] # None) =>
            \A path \in TriePaths(runs[r].built[k][1]) :
                \E row \in PassingRows(k, runs[r]) :
                    Project(AtomProjection(cq.query.atoms[k], runs[r].vars), row) = path

Perms(n) == {f \in [1..n -> 1..n] : \A i, j \in 1..n : f[i] = f[j] => i = j}

\* the filters can be put in an order in which every input of a filter is a
\* literal, a variable of an atom or the output of an earlier filter
CanSchedule(q) ==
    \E ord \in Perms(Len(q.filters)) :
        \A k \in DOMAIN q.filters :
            LET p == q.filters[ord[k]]
            IN \A a \in 1..(Len(p.args) - 1) :
                  IsVar(p.args[a]) =>
                      \/ \E i \in DOMAIN q.atoms : p.args[a] \in Range(q.atoms[i].args)
                      \/ \E k2 \in 1..(k - 1) :
                            q.filters[ord[k2]].args[Len(q.filters[ord[k2]].args)] = p.args[a]

\* C5: when the filters of the query cannot all be scheduled the run fails
\* with the panic of compile_program, at its first Context::new, and the
\* callback has received nothing; the run fails for no other reason.
C5_CyclicPrimitivesFail ==
    /\ (pc # "idle" /\ ~CanSchedule(cq.query)) =>
          /\ pc # "done"
          /\ out = << >>
          /\ runs # << >> => (pc = "panic" /\ Len(runs) = 1)
          /\ \A r \in DOMAIN runs : runs[r].panic /\ ~runs[r].some /\ runs[r].log = << >>
    /\ pc = "panic" => ~CanSchedule(cq.query)

\* the run failed although the atoms of the query have a match
C5_Witness ==
    /\ pc = "panic"
    /\ HasAtoms
    /\ FullJoin(functions, compile_gj_query(Query(cq.query.atoms, << >>))) # {}

\* the Return that ends the eval call whose first event is log[a]
MatchingReturn(log, a) ==
    CHOOSE b \in (a + 1)..Len(log) :
        /\ log[b].op = "Return" /\ log[b].pc = log[a].pc
        /\ \A c \in (a + 1)..(b - 1) : ~(log[c].op = "Return" /\ log[c].pc = log[a].pc)

\* the keys an Intersect bound between its start log[a] and its Return
BoundKeys(log, a) ==
    LET binds == SelectSeq(SubSeq(log, a + 1, MatchingReturn(log, a) - 1),
                           LAMBDA e : e.op = "Bind" /\ e.pc = log[a].pc)
    IN [k \in DOMAIN binds |-> binds[k].val]

\* the result of the Call logged as event e does not fit its output
CallFails(program, e) ==
    LET instr == program[e.pc]
        last == instr.args[Len(instr.args)]
    IN \/ e.val = None
       \/ ~IsVar(last) /\ last.val # e.val[1]
       \/ /\ IsVar(last)
          /\ instr.check
          /\ e.tuple[CHOOSE k \in DOMAIN cq.vars : cq.vars[k].sym = last.sym] # e.val[1]

\* C6: a Call whose primitive returns nothing, or a result different from
\* its literal output or its bound output variable, returns at once: nothing
\* of the program suffix runs and the callback is not invoked under it, the
\* run does not fail, and every Intersect still binds each of its keys.
C6_CallPrunesBranchOnly ==
    \A r \in DOMAIN runs :
        LET log == runs[r].log
        IN /\ \A p \in DOMAIN log :
                 (log[p].op = "Call" /\ CallFails(runs[r].program, log[p])) =>
                     /\ log[p + 1].op = "Prune"
                     /\ log[p + 2].op = "Return" /\ log[p + 2].pc = log[p].pc
                     /\ log[p + 2].tuple = log[p].tuple
                     /\ ~runs[r].panic
                     /\ pc # "panic"
           /\ \A a \in DOMAIN log :
                 log[a].op = "Intersect" => BoundKeys(log, a) = log[a].val

\* a branch was pruned and the enumeration went on to bind a further key and
\* to emit a tuple
C6_Witness ==
    \E r \in DOMAIN runs :
        \E p, q, e \in DOMAIN runs[r].log :
            /\ p < q /\ q < e
            /\ runs[r].log[p].op = "Prune"
            /\ runs[r].log[q].op = "Bind"
            /\ runs[r].log[e].op = "Emit"

Permuted(q, f) == Query([k \in DOMAIN q.atoms |-> q.atoms[f[k]]], q.filters)

\* C7: a run of the query with its atoms permuted emits the same set of
\* assignments (by variable name), for every timestamp.
C7_AtomOrderIndependent ==
    pc = "done" =>
        \A f \in Perms(Len(cq.query.atoms)) \ {[k \in DOMAIN cq.query.atoms |-> k]} :
            \A cqp \in {compile_gj_query(Permuted(cq.query, f))} :
                \A res \in {run_query(functions, cqp, timestamp)} :
                    ~Panicked(res) /\ EmittedSet(cqp, Received(res)) = EmittedSet(cq, out)

\* a seminaive run (0 < t) over different atoms that emitted something
C7_Witness ==
    /\ pc = "done"
    /\ Len(cq.query.atoms) >= 2
    /\ cq.query.atoms[1] # cq.query.atoms[2]
    /\ timestamp > 0
    /\ out # << >>

\* C9: execution i of a run over N >= 1 atoms has range [t, u32::MAX) for
\* atom i, [0, t) for the atoms before it and [0, u32::MAX) for the atoms
\* after it; the executions happen in increasing i and there are N of them
\* when run_query returns; a query without atoms is executed exactly once.
C9_SplitRanges ==
    LET n == Len(cq.query.atoms)
    IN /\ \A r \in DOMAIN runs :
             runs[r].ranges =
                 [j \in 1..n |-> IF j = r THEN [start |-> timestamp, end |-> U32_MAX]
                                 ELSE IF j < r THEN [start |-> 0, end |-> timestamp]
                                 ELSE [start |-> 0, end |-> U32_MAX]]
       /\ pc = "done" => Len(runs) = (IF n = 0 THEN 1 ELSE n)

C9_Witness ==
    /\ pc = "done"
    /\ Len(cq.query.atoms) = 3
    /\ timestamp > 0
    /\ timestamp < U32_MAX

\* instruction instr binds tuple slot i
Binds(instr, i) ==
    \/ instr.op = "Intersect" /\ instr.idx = i
    \/ /\ instr.op = "Call"
       /\ ~instr.check
       /\ instr.args[Len(instr.args)] = Var(cq.vars[i].sym)

\* C10: in a program that compile_program returns, every variable of the
\* tuple layout is bound by exactly one instruction (an Intersect when it
\* occurs in an atom, else a Call with check = false), the inputs of every
\* Call are bound by earlier instructions, and at every callback invocation
\* every slot was written on the current path and is not the placeholder.
C10_EveryVariableBoundOnce ==
    \A r \in DOMAIN runs :
        ~runs[r].panic =>
            LET program == runs[r].program
                log == runs[r].log
            IN /\ \A i \in DOMAIN cq.vars :
                     /\ Cardinality({k \in DOMAIN program : Binds(program[k], i)}) = 1
                     /\ \A k \in DOMAIN program :
                           Binds(program[k], i) =>
                               ((program[k].op = "Intersect") <=> (cq.vars[i].occurences # << >>))
               /\ \A k \in DOMAIN program :
                     program[k].op = "Call" =>
                         \A a \in 1..(Len(program[k].args) - 1) :
                             IsVar(program[k].args[a]) =>
                                 \E i \in DOMAIN cq.vars, k2 \in 1..(k - 1) :
                                     /\ cq.vars[i].sym = program[k].args[a].sym
                                     /\ Binds(program[k2], i)
               /\ \A e \in DOMAIN log :
                     log[e].op = "Emit" =>
                         /\ log[e].val = DOMAIN cq.vars
                         /\ \A i \in DOMAIN cq.vars : log[e].tuple[i] # Fake

\* the callback was invoked under a program with two Calls, one of which
\* binds a fresh variable
C10_Witness ==
    \E r \in DOMAIN runs :
        /\ \E e \in DOMAIN runs[r].log : runs[r].log[e].op = "Emit"
        /\ \E k, k2 \in DOMAIN runs[r].program :
              /\ k # k2
              /\ runs[r].program[k].op = "Call" /\ ~runs[r].program[k].check
              /\ runs[r].program[k2].op = "Call"

\* the column of the first occurrence of variable v in the atom, 0 if none
FirstColumn(atom, v) == MinOrZero({i \in DOMAIN atom.args : atom.args[i] = Var(v)})

\* the variables before position pos of the elimination order that occur in
\* the atom
Preceding(atom, order, pos) ==
    SelectSeq(SubSeq(order, 1, pos - 1), LAMBDA u : FirstColumn(atom, u) # 0)

RECURSIVE Walk(_, _)
\* the subtrie reached from trie along the keys of path
Walk(trie, path) ==
    IF path = << >> THEN trie
    ELSE IF Head(path) \in DOMAIN trie THEN Walk(trie[Head(path)], Tail(path))
    ELSE [off |-> path]

\* the values the tuple of a log event holds for the variables us
ValuesOf(e, us) == [k \in DOMAIN us |-> e.tuple[GetIndexOf(cq.vars, us[k])]]

\* the cursor of atom j at the Intersect event e of a run is the subtrie of
\* the atom's trie below the values of the earlier variables of the atom,
\* and its keys are values that rows of the relation hold in the column of
\* the variable of the Intersect, next to those earlier values
CursorAtLevel(run, e, j) ==
    LET atom == cq.query.atoms[j]
        v == cq.vars[run.program[e.pc].idx].sym
        before == Preceding(atom, run.vars, GetIndexOf([k \in DOMAIN run.vars |-> [sym |-> run.vars[k]]], v))
    IN /\ FirstColumn(atom, v) # 0
       /\ e.tries[j] = Walk(run.built[j][1], ValuesOf(e, before))
       /\ \A key \in DOMAIN e.tries[j] :
              \E row \in RowsInRange(functions, atom.head, run.ranges[j]) :
                  /\ row[FirstColumn(atom, v)] = key
                  /\ \A k \in DOMAIN before :
                         row[FirstColumn(atom, before[k])] = ValuesOf(e, before)[k]

\* C11: whenever an Intersect for variable v is executed, the cursor of every
\* listed atom is at the level of the atom's trie keyed by v: it is the
\* subtrie below the values bound to the variables of the atom that precede
\* v in the elimination order, and its keys are values of v's column.
C11_CursorAtVariableLevel ==
    \A r \in DOMAIN runs : \A e \in DOMAIN runs[r].log :
        runs[r].log[e].op = "Intersect" =>
            \A j \in Range(runs[r].program[runs[r].log[e].pc].trie_indices) :
                CursorAtLevel(runs[r], runs[r].log[e], j)

\* an Intersect ran on a cursor one level below the root of a trie that has
\* keys left to bind
C11_Witness ==
    \E r \in DOMAIN runs : \E e \in DOMAIN runs[r].log :
        /\ runs[r].log[e].op = "Intersect"
        /\ runs[r].log[e].val # << >>
        /\ \E j \in Range(runs[r].program[runs[r].log[e].pc].trie_indices) :
              runs[r].log[e].tries[j] # runs[r].built[j][1]

\* the events between the start log[a] of an eval call and its Return
Inside(log, a) == (a + 1)..(MatchingReturn(log, a) - 1)

\* the Binds of the loop of the Intersect whose first event is log[a]
BindsOf(log, a) == {b \in Inside(log, a) : log[b].op = "Bind" /\ log[b].pc = log[a].pc}

\* C12: every eval call returns with the cursor vector it was entered with
\* (on each Intersect path, with an empty key set, and when a Call prunes),
\* and at every key an Intersect binds the cursors of the atoms it does not
\* list are the ones at its entry.
C12_EvalRestoresCursors ==
    \A r \in DOMAIN runs : \A a \in DOMAIN runs[r].log :
        runs[r].log[a].op \in {"Intersect", "Call", "Emit"} =>
            /\ runs[r].log[MatchingReturn(runs[r].log, a)].tries = runs[r].log[a].tries
            /\ runs[r].log[a].op = "Intersect" =>
                    \A b \in BindsOf(runs[r].log, a) :
                        \A j \in DOMAIN cq.query.atoms :
                            j \notin Range(runs[r].program[runs[r].log[a].pc].trie_indices)
                                => runs[r].log[b].tries[j] = runs[r].log[a].tries[j]

\* an Intersect over three listed cursors bound a key, and a Call pruned a
\* branch under it
C12_Witness ==
    \E r \in DOMAIN runs : \E a \in DOMAIN runs[r].log :
        /\ runs[r].log[a].op = "Intersect"
        /\ Len(runs[r].program[runs[r].log[a].pc].trie_indices) >= 3
        /\ \E b \in Inside(runs[r].log, a) : runs[r].log[b].op = "Bind"
        /\ \E p \in Inside(runs[r].log, a) : runs[r].log[p].op = "Prune"

\* the keys that every listed cursor of the Intersect event e holds
CommonKeys(run, e) ==
    {key \in UNION {DOMAIN e.tries[j] : j \in Range(run.program[e.pc].trie_indices)} :
        \A j \in Range(run.program[e.pc].trie_indices) : key \in DOMAIN e.tries[j]}

\* on the cursors of the Intersect event e the path taken yields the keys and
\* the child cursors of the general path
SameAsGeneralPath(run, e) ==
    LET trie_indices == run.program[e.pc].trie_indices
        rs == Cursors(e.tries, trie_indices)
    IN /\ Range(IntersectKeys(trie_indices, rs)) = Range(KeysN(trie_indices, rs))
       /\ \A val \in Range(KeysN(trie_indices, rs)) :
              Descend(e.tries, trie_indices, rs, val) = DescendN(e.tries, trie_indices, rs, val, 1)

\* C13: the keys an Intersect binds are exactly the keys common to the
\* cursors of all listed atoms, each bound once, with every listed cursor
\* moved to its child for the key; the paths for one and for two listed
\* atoms give the keys and child cursors of the general path, also when
\* both listed indices name one atom.
C13_IntersectBindsCommonKeys ==
    \A r \in DOMAIN runs : \A a \in DOMAIN runs[r].log :
        runs[r].log[a].op = "Intersect" =>
            /\ Range(BoundKeys(runs[r].log, a)) = CommonKeys(runs[r], runs[r].log[a])
            /\ Len(BoundKeys(runs[r].log, a)) = Cardinality(CommonKeys(runs[r], runs[r].log[a]))
            /\ \A b \in BindsOf(runs[r].log, a) :
                   \A j \in Range(runs[r].program[runs[r].log[a].pc].trie_indices) :
                       runs[r].log[b].tries[j] = runs[r].log[a].tries[j][runs[r].log[b].val]
            /\ SameAsGeneralPath(runs[r], runs[r].log[a])

\* an Intersect over three listed cursors bound some but not all keys of a
\* listed cursor, and an Intersect listing one atom twice bound a key
C13_Witness ==
    \E r \in DOMAIN runs : \E a, a2 \in DOMAIN runs[r].log :
        /\ runs[r].log[a].op = "Intersect"
        /\ Len(runs[r].program[runs[r].log[a].pc].trie_indices) >= 3
        /\ BoundKeys(runs[r].log, a) # << >>
        /\ \E j \in Range(runs[r].program[runs[r].log[a].pc].trie_indices) :
              DOMAIN runs[r].log[a].tries[j] # CommonKeys(runs[r], runs[r].log[a])
        /\ runs[r].log[a2].op = "Intersect"
        /\ Cardinality(Range(runs[r].program[runs[r].log[a2].pc].trie_indices))
               < Len(runs[r].program[runs[r].log[a2].pc].trie_indices)
        /\ BoundKeys(runs[r].log, a2) # << >>

\* C14: a split is skipped as empty only if some atom has no row passing its
\* constraints within its timestamp range; an atom whose arguments are all
\* literals and that has a matching row in range does not suppress the split.
C14_SkippedOnlyWhenSomeAtomEmpty ==
    \A r \in DOMAIN runs :
        (~runs[r].panic /\ ~runs[r].some)
        => \E k \in DOMAIN cq.query.atoms : PassingRows(k, runs[r]) = {}

\* the canonical form of a value under a union-find: the leader for an id of
\* the eq-sort, the value itself for a base value
CanonicalForm(v, uf) == IF v.tag = "Math" THEN [v EXCEPT !.bits = Find(uf, v.bits)] ELSE v

CanonicalArgs(args, uf) == [i \in DOMAIN args |-> CanonicalForm(args[i], uf)]

\* C15: after FunctionSort::canonicalize on a value denoting (name, a1..an)
\* the value denotes (name, c1..cn) with ci the canonical form of ai, the
\* call returns true exactly when some ai differs from ci, and after true
\* the stored arguments differ from those before the call.
C15_CanonicalizeStoresCanonicalArgs ==
    canon.called =>
        /\ canon.after = ValueFunction(canon.before.name,
                                       CanonicalArgs(canon.before.args, canon.unionfind))
        /\ canon.changed <=> (CanonicalArgs(canon.before.args, canon.unionfind) # canon.before.args)
        /\ canon.changed => canon.after.args # canon.before.args

====
